---- MODULE Spec2Model ----
(***************************************************************************)
(* The typed projection of Jira query responses (src/issue_model.rs).      *)
(*                                                                         *)
(* The source is a set of `#[derive(Deserialize)]` structs, each ending    *)
(* with a `#[serde(flatten)] extra: Value` catch-all.  The model gives     *)
(* each struct as a table of its declared fields and decodes a JSON tree   *)
(* against the table the way the derived visitor does: the entries of an   *)
(* object are visited in document order, a declared key is decoded into    *)
(* its slot, any other key is buffered for the flattened `extra`, and the  *)
(* absent slots are settled once the object is exhausted.                  *)
(***************************************************************************)
EXTENDS Integers, Sequences, FiniteSets, TLC

(***************************************************************************)
(* JSON documents.  A node is [t, s, items]: t is the JSON kind, s the     *)
(* characters of a scalar, items the entries [k, v] of an array (k = "")   *)
(* or of an object, in document order (an object may repeat a key).        *)
(***************************************************************************)
JNull == [t |-> "null", s |-> <<>>, items |-> <<>>]
JTrue == [t |-> "bool", s |-> <<"t", "r", "u", "e">>, items |-> <<>>]
JFalse == [t |-> "bool", s |-> <<"f", "a", "l", "s", "e">>, items |-> <<>>]
JStr(cs) == [t |-> "str", s |-> cs, items |-> <<>>]
JInt(cs) == [t |-> "int", s |-> cs, items |-> <<>>]
JFloat(cs) == [t |-> "float", s |-> cs, items |-> <<>>]
E(k, v) == [k |-> k, v |-> v]
JArr(vs) == [t |-> "arr", s |-> <<>>, items |-> [i \in 1..Len(vs) |-> E("", vs[i])]]
JObj(es) == [t |-> "obj", s |-> <<>>, items |-> es]

Min(S) == CHOOSE x \in S : \A y \in S : x <= y
Max(S) == CHOOSE x \in S : \A y \in S : x >= y

(***************************************************************************)
(* serde_json::Value, the type of every `extra`.  A node is                *)
(* [t, s, items, map]: an array keeps its elements in items, an object is  *)
(* a map from key to Value (one entry per key, no order).                  *)
(***************************************************************************)
EmptyMap == [x \in {} |-> 0]

RECURSIVE ToValue(_)
MapOf(es, keys) ==
    [k \in keys |-> ToValue(es[Max({i \in 1..Len(es) : es[i].k = k})].v)]
ToValue(j) ==
    [t |-> j.t, s |-> j.s,
     items |-> IF j.t = "arr" THEN [i \in 1..Len(j.items) |-> ToValue(j.items[i].v)]
               ELSE <<>>,
     map |-> IF j.t = "obj" THEN MapOf(j.items, {j.items[i].k : i \in 1..Len(j.items)})
             ELSE EmptyMap]

(***************************************************************************)
(* The declared fields of each struct, in declaration order.  A field is   *)
(* [rust, wire, ty, opt, vec]: its Rust name, its JSON name (the           *)
(* `#[serde(rename)]`, else the Rust name), the type under any Option<> or *)
(* Vec<>, and which of the two wraps it.  The trailing                     *)
(* `#[serde(flatten)] extra: Value` of every struct is the bag of Decoded. *)
(***************************************************************************)
Req(rust, wire, ty) == [rust |-> rust, wire |-> wire, ty |-> ty, opt |-> FALSE, vec |-> FALSE]
Opt(rust, wire, ty) == [rust |-> rust, wire |-> wire, ty |-> ty, opt |-> TRUE, vec |-> FALSE]
VecOf(rust, wire, ty) == [rust |-> rust, wire |-> wire, ty |-> ty, opt |-> FALSE, vec |-> TRUE]

JqlResults ==
    << VecOf("issues", "issues", "Issue") >>

Issue ==
    << Req("id", "id", "String"),
       Req("key", "key", "String"),
       Req("expand", "expand", "String"),
       Req("fields", "fields", "Fields"),
       Req("self_link", "self", "String") >>

Fields ==
    << Opt("last_viewed", "lastViewed", "DateTime"),
       VecOf("labels", "labels", "String"),
       VecOf("versions", "versions", "Version"),
       Opt("assignee", "assignee", "User"),
       Opt("description", "description", "String"),
       Opt("duedate", "duedate", "DateTime"),
       VecOf("fix_versions", "fixVersions", "Version"),
       Req("reporter", "reporter", "User"),
       Req("status", "status", "Status"),
       Req("created", "created", "DateTime"),
       Req("updated", "updated", "DateTime"),
       Req("issuetype", "issuetype", "IssueType"),
       Opt("timeestimate", "timeestimate", "i32"),
       Opt("aggregatetimeestimate", "aggregatetimeestimate", "i32"),
       Opt("timeoriginalestimate", "timeoriginalestimate", "i32"),
       Opt("timespent", "timespent", "i32"),
       Opt("aggregatetimespent", "aggregatetimespent", "i32"),
       Opt("aggregatetimeoriginalestimate", "aggregatetimeoriginalestimate", "i32"),
       Req("progress", "progress", "Progress"),
       Req("aggregateprogress", "aggregateprogress", "Progress"),
       Req("workratio", "workratio", "i32"),
       Req("summary", "summary", "String"),
       Req("creator", "creator", "User"),
       Req("project", "project", "Project"),
       Req("priority", "priority", "Priority"),
       VecOf("components", "components", "Component"),
       Req("watches", "watches", "Watches"),
       Opt("archiveddate", "archiveddate", "DateTime"),
       Opt("archivedby", "archivedby", "DateTime"),
       Opt("resolution", "resolution", "Resolution"),
       Opt("resolutiondate", "resolutiondate", "DateTime"),
       Opt("comment", "comment", "Comments"),
       VecOf("issuelinks", "issuelinks", "IssueLink"),
       Req("votes", "votes", "Votes"),
       Opt("parent", "parent", "CondensedIssue"),
       VecOf("subtasks", "subtasks", "CondensedIssue") >>

User ==
    << Req("active", "active", "bool"),
       Req("display_name", "displayName", "String"),
       Opt("email_address", "emailAddress", "String"),
       Req("key", "key", "String"),
       Req("name", "name", "String"),
       Req("time_zone", "timeZone", "String"),
       Req("avatar_urls", "avatarUrls", "AvatarUrls"),
       Req("self_link", "self", "String") >>

Version ==
    << Req("id", "id", "String"),
       Opt("description", "description", "String"),
       Req("name", "name", "String"),
       Req("archived", "archived", "bool"),
       Req("released", "released", "bool"),
       Opt("release_date", "releaseDate", "NaiveDate"),
       Req("self_link", "self", "String") >>

Status ==
    << Req("description", "description", "String"),
       Req("icon_url", "iconUrl", "String"),
       Req("id", "id", "String"),
       Req("name", "name", "String"),
       Req("status_category", "statusCategory", "StatusCategory"),
       Req("self_link", "self", "String") >>

StatusCategory ==
    << Req("color_name", "colorName", "String"),
       Req("id", "id", "i32"),
       Req("key", "key", "String"),
       Req("name", "name", "String"),
       Req("self_link", "self", "String") >>

Resolution ==
    << Req("description", "description", "String"),
       Req("id", "id", "String"),
       Req("name", "name", "String"),
       Req("self_link", "self", "String") >>

IssueType ==
    << Req("avatar_id", "avatarId", "i32"),
       Req("description", "description", "String"),
       Req("icon_url", "iconUrl", "String"),
       Req("id", "id", "String"),
       Req("name", "name", "String"),
       Req("subtask", "subtask", "bool"),
       Req("self_link", "self", "String") >>

Project ==
    << Req("id", "id", "String"),
       Req("key", "key", "String"),
       Req("name", "name", "String"),
       Req("project_type_key", "projectTypeKey", "String"),
       Req("project_category", "projectCategory", "ProjectCategory"),
       Req("avatar_urls", "avatarUrls", "AvatarUrls"),
       Req("self_link", "self", "String") >>

ProjectCategory ==
    << Req("description", "description", "String"),
       Req("id", "id", "String"),
       Req("name", "name", "String"),
       Req("self_link", "self", "String") >>

Priority ==
    << Req("icon_url", "iconUrl", "String"),
       Req("id", "id", "String"),
       Req("name", "name", "String"),
       Req("self_link", "self", "String") >>

Component ==
    << Opt("description", "description", "String"),
       Req("id", "id", "String"),
       Req("name", "name", "String"),
       Req("self_link", "self", "String") >>

Watches ==
    << Req("is_watching", "isWatching", "bool"),
       Req("watch_count", "watchCount", "i32"),
       Req("self_link", "self", "String") >>

Progress ==
    << Req("progress", "progress", "i32"),
       Req("total", "total", "i32") >>

Comment ==
    << Req("author", "author", "User"),
       Req("body", "body", "String"),
       Req("created", "created", "DateTime"),
       Req("id", "id", "String"),
       Req("update_author", "updateAuthor", "User"),
       Req("updated", "updated", "DateTime"),
       Opt("visibility", "visibility", "Visibility"),
       Req("self_link", "self", "String") >>

Comments ==
    << VecOf("comments", "comments", "Comment"),
       Req("max_results", "maxResults", "i32"),
       Req("start_at", "startAt", "i32"),
       Req("total", "total", "i32") >>

IssueLink ==
    << Req("id", "id", "String"),
       Opt("outward_issue", "outwardIssue", "LinkedIssue"),
       Opt("inward_issue", "inwardIssue", "LinkedIssue"),
       Req("link_type", "type", "IssueLinkType"),
       Req("self_link", "self", "String") >>

LinkedIssue ==
    << Req("id", "id", "String"),
       Req("key", "key", "String"),
       Req("fields", "fields", "LinkedIssueFields"),
       Req("self_link", "self", "String") >>

LinkedIssueFields ==
    << Req("issuetype", "issuetype", "IssueType"),
       Opt("priority", "priority", "Priority"),
       Req("status", "status", "Status"),
       Req("summary", "summary", "String") >>

IssueLinkType ==
    << Req("id", "id", "String"),
       Req("inward", "inward", "String"),
       Req("name", "name", "String"),
       Req("outward", "outward", "String"),
       Req("self_link", "self", "String") >>

Votes ==
    << Req("has_voted", "hasVoted", "bool"),
       Req("votes", "votes", "i32"),
       Req("self_link", "self", "String") >>

AvatarUrls ==
    << Req("xsmall", "16x16", "String"),
       Req("small", "24x24", "String"),
       Req("medium", "32x32", "String"),
       Req("full", "48x48", "String") >>

CondensedIssue ==
    << Req("fields", "fields", "CondensedFields"),
       Req("id", "id", "String"),
       Req("key", "key", "String"),
       Req("self_link", "self", "String") >>

CondensedFields ==
    << Req("issuetype", "issuetype", "IssueType"),
       Req("priority", "priority", "Priority"),
       Req("status", "status", "Status"),
       Req("summary", "summary", "String") >>

Visibility ==
    << Req("type", "type", "String"),
       Req("value", "value", "String") >>

EntityTypes ==
    {"JqlResults", "Issue", "Fields", "User", "Version", "Status", "StatusCategory", "Resolution", "IssueType", "Project", "ProjectCategory", "Priority", "Component", "Watches", "Progress", "Comment", "Comments", "IssueLink", "LinkedIssue", "LinkedIssueFields", "IssueLinkType", "Votes", "AvatarUrls", "CondensedIssue", "CondensedFields", "Visibility"}

StructFields(T) ==
    CASE T = "JqlResults" -> JqlResults
      [] T = "Issue" -> Issue
      [] T = "Fields" -> Fields
      [] T = "User" -> User
      [] T = "Version" -> Version
      [] T = "Status" -> Status
      [] T = "StatusCategory" -> StatusCategory
      [] T = "Resolution" -> Resolution
      [] T = "IssueType" -> IssueType
      [] T = "Project" -> Project
      [] T = "ProjectCategory" -> ProjectCategory
      [] T = "Priority" -> Priority
      [] T = "Component" -> Component
      [] T = "Watches" -> Watches
      [] T = "Progress" -> Progress
      [] T = "Comment" -> Comment
      [] T = "Comments" -> Comments
      [] T = "IssueLink" -> IssueLink
      [] T = "LinkedIssue" -> LinkedIssue
      [] T = "LinkedIssueFields" -> LinkedIssueFields
      [] T = "IssueLinkType" -> IssueLinkType
      [] T = "Votes" -> Votes
      [] T = "AvatarUrls" -> AvatarUrls
      [] T = "CondensedIssue" -> CondensedIssue
      [] T = "CondensedFields" -> CondensedFields
      [] T = "Visibility" -> Visibility

(* Variants of the tables, each a slip in one struct's declaration. *)
Optional(f) == [f EXCEPT !.opt = TRUE]
SchemaUnifiedPriority(T) ==
    IF T = "CondensedFields" THEN LinkedIssueFields ELSE StructFields(T)
SchemaCondensedRecursive(T) ==
    IF T = "CondensedIssue"
    THEN StructFields(T) \o << Opt("parent", "parent", "CondensedIssue"),
                                VecOf("subtasks", "subtasks", "CondensedIssue") >>
    ELSE StructFields(T)
SchemaCountersOptional(T) ==
    IF T = "Fields"
    THEN [n \in 1..Len(Fields) |->
            IF Fields[n].wire \in {"workratio", "watches", "votes"}
            THEN Optional(Fields[n]) ELSE Fields[n]]
    ELSE StructFields(T)

(* The declared fields the derive sees for struct T. *)
Schema(T) == StructFields(T)

(***************************************************************************)
(* Decoded values.  [k, s, n, m, items, bag]: k is the Rust type, or       *)
(* "None" for an Option without a value (Some(x) is x itself).  A String   *)
(* keeps its characters in s, a bool and an i32 their value in n, a        *)
(* NaiveDate its day number in n, a DateTime<Utc> its UTC day number in n, *)
(* second of the day in m and fraction digits in s, a Vec its elements in  *)
(* items, a struct its declared fields in items (in declaration order) and *)
(* its `extra` in bag.                                                     *)
(***************************************************************************)
D(k, s, n, m, items, bag) ==
    [k |-> k, s |-> s, n |-> n, m |-> m, items |-> items, bag |-> bag]
None == D("None", <<>>, 0, 0, <<>>, EmptyMap)

(* Result<T, serde_json::Error>: err is the serde::de::Error constructor  *)
(* that made the error, at the type or field it names.                     *)
Ok(d) == [ok |-> TRUE, err |-> "", at |-> "", val |-> d]
Err(kind, at) == [ok |-> FALSE, err |-> kind, at |-> at, val |-> None]

(***************************************************************************)
(* Characters and numbers.                                                 *)
(***************************************************************************)
DigitChars == <<"0", "1", "2", "3", "4", "5", "6", "7", "8", "9">>
IsDigit(c) == \E i \in 1..10 : DigitChars[i] = c
DigitVal(c) == (CHOOSE i \in 1..10 : DigitChars[i] = c) - 1

(* The number of digits of cs from position i on, at most w of them. *)
RECURSIVE DigitsAt(_, _, _)
DigitsAt(cs, i, w) ==
    IF w = 0 \/ i > Len(cs) \/ ~IsDigit(cs[i]) THEN 0
    ELSE 1 + DigitsAt(cs, i + 1, w - 1)

(* The value of the w digits of cs from position i on. *)
RECURSIVE NumAt(_, _, _)
NumAt(cs, i, w) ==
    IF w = 0 THEN 0
    ELSE 10 * NumAt(cs, i, w - 1) + DigitVal(cs[i + w - 1])

CharAt(cs, i) == IF i \in 1..Len(cs) THEN cs[i] ELSE ""

(* Whether the digits ds are, as a number, at most the digits of bound. *)
RECURSIVE DigitsLeq(_, _, _)
DigitsLeq(ds, bound, i) ==
    IF i > Len(ds) THEN TRUE
    ELSE IF DigitVal(ds[i]) < DigitVal(bound[i]) THEN TRUE
    ELSE IF DigitVal(ds[i]) > DigitVal(bound[i]) THEN FALSE
    ELSE DigitsLeq(ds, bound, i + 1)

I32MaxDigits == <<"2", "1", "4", "7", "4", "8", "3", "6", "4", "7">>
I32MinDigits == <<"2", "1", "4", "7", "4", "8", "3", "6", "4", "8">>

(* An integer literal of JSON fits an i32. *)
FitsI32(cs) ==
    LET neg == CharAt(cs, 1) = "-"
        ds == IF neg THEN Tail(cs) ELSE cs
    IN  \/ Len(ds) < Len(I32MaxDigits)
        \/ /\ Len(ds) = Len(I32MaxDigits)
           /\ DigitsLeq(ds, IF neg THEN I32MinDigits ELSE I32MaxDigits, 1)

(* -2147483648 itself is kept as -2147483647 - 1. *)
I32Val(cs) ==
    IF CharAt(cs, 1) = "-"
    THEN IF Tail(cs) = I32MinDigits THEN (0 - NumAt(I32MaxDigits, 1, 10)) - 1
         ELSE 0 - NumAt(cs, 2, Len(cs) - 1)
    ELSE NumAt(cs, 1, Len(cs))

(***************************************************************************)
(* chrono's two string parsers.                                            *)
(***************************************************************************)
IsLeap(y) == (y % 4 = 0 /\ y % 100 # 0) \/ y % 400 = 0
DaysInMonth(y, mo) ==
    IF mo = 2 THEN (IF IsLeap(y) THEN 29 ELSE 28)
    ELSE IF mo \in {4, 6, 9, 11} THEN 30 ELSE 31
RECURSIVE DaysBefore(_, _)
DaysBefore(y, mo) == IF mo = 1 THEN 0 ELSE DaysBefore(y, mo - 1) + DaysInMonth(y, mo - 1)
(* Days from 0001-01-01 (day 1) in the proleptic Gregorian calendar. *)
DayNumber(y, mo, d) ==
    365 * (y - 1) + ((y - 1) \div 4) - ((y - 1) \div 100) + ((y - 1) \div 400)
    + DaysBefore(y, mo) + d

(* year-month-day from position 1: [ok, days, next], next the position    *)
(* after the day.  The year takes up to 4 digits, month and day up to 2.   *)
ScanDate(cs) ==
    LET yw == DigitsAt(cs, 1, 4)
        mw == DigitsAt(cs, yw + 2, 2)
        dw == DigitsAt(cs, yw + mw + 3, 2)
        y == NumAt(cs, 1, yw)
        mo == NumAt(cs, yw + 2, mw)
        d == NumAt(cs, yw + mw + 3, dw)
        shape == /\ yw >= 1 /\ CharAt(cs, yw + 1) = "-"
                 /\ mw >= 1 /\ CharAt(cs, yw + mw + 2) = "-"
                 /\ dw >= 1
    IN  IF shape /\ mo \in 1..12 /\ d \in 1..DaysInMonth(y, mo)
        THEN [ok |-> TRUE, days |-> DayNumber(y, mo, d), next |-> yw + mw + dw + 3]
        ELSE [ok |-> FALSE, days |-> 0, next |-> 0]

(* A variant: whatever follows the date is dropped. *)
ParseNaiveDateTruncating(cs) ==
    LET r == ScanDate(cs)
    IN  IF r.ok THEN Ok(D("NaiveDate", <<>>, r.days, 0, <<>>, EmptyMap))
        ELSE Err("custom", "NaiveDate")

(* NaiveDate::from_str: a date and nothing after it. *)
ParseNaiveDate(cs) ==
    LET r == ScanDate(cs)
    IN  IF r.ok /\ r.next = Len(cs) + 1
        THEN Ok(D("NaiveDate", <<>>, r.days, 0, <<>>, EmptyMap))
        ELSE Err("custom", "NaiveDate")

(* The fraction digits without their trailing zeros. *)
RECURSIVE TrimZeros(_)
TrimZeros(ds) ==
    IF ds # <<>> /\ ds[Len(ds)] = "0" THEN TrimZeros(SubSeq(ds, 1, Len(ds) - 1)) ELSE ds

(* hh:mm:ss from position p: [ok, secs, next]. *)
ScanTime(cs, p) ==
    LET hw == DigitsAt(cs, p, 2)
        miw == DigitsAt(cs, p + hw + 1, 2)
        sw == DigitsAt(cs, p + hw + miw + 2, 2)
    IN  IF /\ hw >= 1 /\ CharAt(cs, p + hw) = ":"
           /\ miw >= 1 /\ CharAt(cs, p + hw + miw + 1) = ":"
           /\ sw >= 1
           /\ NumAt(cs, p, hw) \in 0..23
           /\ NumAt(cs, p + hw + 1, miw) \in 0..59
           /\ NumAt(cs, p + hw + miw + 2, sw) \in 0..59
        THEN [ok |-> TRUE,
              secs |-> NumAt(cs, p, hw) * 3600 + NumAt(cs, p + hw + 1, miw) * 60
                       + NumAt(cs, p + hw + miw + 2, sw),
              next |-> p + hw + miw + sw + 2]
        ELSE [ok |-> FALSE, secs |-> 0, next |-> 0]

(* An optional fraction from position q: "." and up to 9 digits;         *)
(* [ok, digits, next].                                                     *)
ScanFraction(cs, q) ==
    IF CharAt(cs, q) # "." THEN [ok |-> TRUE, digits |-> <<>>, next |-> q]
    ELSE LET fw == DigitsAt(cs, q + 1, 9)
         IN  [ok |-> fw >= 1, digits |-> TrimZeros(SubSeq(cs, q + 1, q + fw)),
              next |-> q + 1 + fw]

(* The offset from position z to the end: "Z", or a sign, hh, an          *)
(* optional ":", mm; [ok, secs].                                           *)
ScanOffset(cs, z) ==
    LET colon == IF CharAt(cs, z + 3) = ":" THEN 1 ELSE 0
        secs == NumAt(cs, z + 1, 2) * 3600 + NumAt(cs, z + 3 + colon, 2) * 60
    IN  IF CharAt(cs, z) = "Z" /\ z = Len(cs) THEN [ok |-> TRUE, secs |-> 0]
        ELSE IF /\ CharAt(cs, z) \in {"+", "-"}
                /\ DigitsAt(cs, z + 1, 2) = 2
                /\ DigitsAt(cs, z + 3 + colon, 2) = 2
                /\ z + 4 + colon = Len(cs)
                /\ NumAt(cs, z + 3 + colon, 2) \in 0..59
        THEN [ok |-> TRUE, secs |-> IF CharAt(cs, z) = "-" THEN 0 - secs ELSE secs]
        ELSE [ok |-> FALSE, secs |-> 0]

(* The instant `secs` seconds into day `days`, secs of any sign, as a     *)
(* day number and a second of that day.                                    *)
Instant(days, secs, frac) ==
    LET shift == IF secs < 0 THEN 0 - (((0 - secs) + 86399) \div 86400) ELSE secs \div 86400
    IN  D("DateTime", frac, days + shift, secs - shift * 86400, <<>>, EmptyMap)

(* DateTime<FixedOffset>::from_str, then with_timezone(&Utc): a date, "T", *)
(* hh:mm:ss, an optional fraction, and an offset; nothing after it.  The   *)
(* offset is subtracted to give the UTC instant.                           *)
ParseDateTime(cs) ==
    LET dt == ScanDate(cs)
    IN  IF ~dt.ok \/ CharAt(cs, dt.next) # "T" THEN Err("custom", "DateTime")
        ELSE LET tm == ScanTime(cs, dt.next + 1)
             IN  IF ~tm.ok THEN Err("custom", "DateTime")
                 ELSE LET fr == ScanFraction(cs, tm.next)
                      IN  IF ~fr.ok THEN Err("custom", "DateTime")
                          ELSE LET off == ScanOffset(cs, fr.next)
                               IN  IF ~off.ok THEN Err("custom", "DateTime")
                                   ELSE Ok(Instant(dt.days, tm.secs - off.secs, fr.digits))

(***************************************************************************)
(* Deserialize, as `#[derive(Deserialize)]` gives it to each struct.       *)
(***************************************************************************)
IsStruct(ty) == ty \in EntityTypes

(* The leaf types: String, bool, i32, DateTime<Utc>, NaiveDate. *)
DeserializeLeaf(ty, j) ==
    CASE ty = "String" ->
            IF j.t = "str" THEN Ok(D("String", j.s, 0, 0, <<>>, EmptyMap))
            ELSE Err("invalid_type", ty)
      [] ty = "bool" ->
            IF j.t = "bool" THEN Ok(D("bool", <<>>, IF j = JTrue THEN 1 ELSE 0, 0, <<>>, EmptyMap))
            ELSE Err("invalid_type", ty)
      [] ty = "i32" ->
            IF j.t = "int"
            THEN IF FitsI32(j.s) THEN Ok(D("i32", <<>>, I32Val(j.s), 0, <<>>, EmptyMap))
                 ELSE Err("invalid_value", ty)
            ELSE Err("invalid_type", ty)
      [] ty = "DateTime" ->
            IF j.t = "str" THEN ParseDateTime(j.s) ELSE Err("invalid_type", ty)
      [] ty = "NaiveDate" ->
            IF j.t = "str" THEN ParseNaiveDate(j.s) ELSE Err("invalid_type", ty)

(* The position in Schema(T) of the field whose JSON name is k, or 0:     *)
(* the derived field identifier, which sends any other key to `extra`.     *)
FieldIndex(T, k) ==
    LET fs == Schema(T)
    IN  IF \E i \in 1..Len(fs) : fs[i].wire = k
        THEN CHOOSE i \in 1..Len(fs) : fs[i].wire = k
        ELSE 0

(* A variant: every key is collected, the declared ones too. *)
CollectedKeysAll(es, idx) == {es[i].k : i \in 1..Len(es)}

(* The keys of the entries es that `extra` collects: those idx sends to   *)
(* no declared field.                                                      *)
CollectedKeys(es, idx) == {es[i].k : i \in {x \in 1..Len(es) : idx[x] = 0}}

(* Variants: a missing Vec defaults to empty (`#[serde(default)]`); a      *)
(* missing Option is an error like any other.                              *)
MissingFieldDefault(f) ==
    IF f.opt THEN Ok(D("None", <<>>, 0, 0, <<>>, EmptyMap))
    ELSE IF f.vec THEN Ok(D("Vec", <<>>, 0, 0, <<>>, EmptyMap))
    ELSE Err("missing_field", f.wire)
MissingFieldStrict(f) == Err("missing_field", f.wire)

(* serde's missing_field for a slot no entry filled: None for an Option,  *)
(* an error for anything else, a Vec included.                             *)
MissingField(f) ==
    IF f.opt THEN Ok(None) ELSE Err("missing_field", f.wire)

(* f itself, computed once: the comparison makes the checker tabulate a  *)
(* function it would otherwise recompute at every application.             *)
Tabulated(f) == IF f = <<>> THEN <<>> ELSE f

RECURSIVE Deserialize(_, _)

(* Vec<ty>: a JSON array, its elements decoded in order; the first        *)
(* element that fails ends the decode with its error.                      *)
DeserializeVec(ty, j) ==
    IF j.t # "arr" THEN Err("invalid_type", "Vec")
    ELSE LET rs == Tabulated([i \in 1..Len(j.items) |-> Deserialize(ty, j.items[i].v)])
             bad == {i \in 1..Len(j.items) : ~rs[i].ok}
         IN  IF bad # {} THEN rs[Min(bad)]
             ELSE Ok(D("Vec", <<>>, 0, 0, [i \in 1..Len(j.items) |-> rs[i].val], EmptyMap))

(* Variants: null is not special; a value that fails to decode is None. *)
DeserializeOptionStrict(ty, j) == Deserialize(ty, j)
DeserializeOptionLenient(ty, j) ==
    IF j.t = "null" \/ ~Deserialize(ty, j).ok THEN Ok(None) ELSE Deserialize(ty, j)

(* Option<ty>: null is None, anything else must decode as ty. *)
DeserializeOption(ty, j) ==
    IF j.t = "null" THEN Ok(None) ELSE Deserialize(ty, j)

(* The value of a declared key. *)
DeserializeValue(f, j) ==
    IF f.vec THEN DeserializeVec(f.ty, j)
    ELSE IF f.opt THEN DeserializeOption(f.ty, j)
    ELSE Deserialize(f.ty, j)

(* A variant: null for a required field counts as the field missing. *)
DeserializeSlotNullMissing(f, j) ==
    IF j.t = "null" /\ ~f.opt /\ ~f.vec THEN Err("missing_field", f.wire)
    ELSE DeserializeValue(f, j)

(* The value of a declared key, as the visitor's loop asks for it. *)
DeserializeSlot(f, j) == DeserializeValue(f, j)

(* The derived visit_map of struct T over the entries es.  The loop takes *)
(* the entries in order: a declared key whose slot is already filled is    *)
(* duplicate_field, a declared key's value is decoded at once, any other   *)
(* key's value is kept for `extra`; the first entry that fails ends the    *)
(* decode with its error (idx is each entry's field, first the entry that  *)
(* fills each slot, rs each entry's outcome, bad the failing entries).     *)
(* After the loop the slots left empty are settled in declaration order,   *)
(* and `extra` is built from the kept entries.                             *)
VisitMap(T, es) ==
    LET fs == Schema(T)
        idx == Tabulated([i \in 1..Len(es) |-> FieldIndex(T, es[i].k)])
        first == Tabulated([n \in 1..Len(fs) |->
                    IF \E i \in 1..Len(es) : idx[i] = n
                    THEN CHOOSE i \in 1..Len(es) :
                            idx[i] = n /\ \A x \in 1..(i - 1) : idx[x] # n
                    ELSE 0])
        rs == Tabulated([i \in 1..Len(es) |->
                 IF idx[i] = 0 THEN Ok(None)
                 ELSE IF first[idx[i]] # i THEN Err("duplicate_field", es[i].k)
                 ELSE DeserializeSlot(fs[idx[i]], es[i].v)])
        bad == {i \in 1..Len(es) : ~rs[i].ok}
        slots == Tabulated([n \in 1..Len(fs) |->
                    IF first[n] = 0 THEN MissingField(fs[n]) ELSE rs[first[n]]])
        missing == {n \in 1..Len(fs) : ~slots[n].ok}
    IN  IF bad # {} THEN rs[Min(bad)]
        ELSE IF missing # {} THEN slots[Min(missing)]
        ELSE Ok(D(T, <<>>, 0, 0, [n \in 1..Len(fs) |-> slots[n].val],
                  MapOf(es, CollectedKeys(es, idx))))

(* A struct is decoded from a JSON object only. *)
DeserializeStruct(T, j) ==
    IF j.t # "obj" THEN Err("invalid_type", T) ELSE VisitMap(T, j.items)

Deserialize(ty, j) ==
    IF IsStruct(ty) THEN DeserializeStruct(ty, j) ELSE DeserializeLeaf(ty, j)

(***************************************************************************)
(* The documents decoded.  Sample(ty, d, n) is a valid document of type    *)
(* ty: every required field has a valid value, and optional fields and     *)
(* collections are populated d levels deep (d = 0: every Option absent,    *)
(* every collection empty), a populated collection with n elements.        *)
(***************************************************************************)
MaxDepth == 1
MaxItems == 1

Timestamp ==
    <<"2", "0", "2", "4", "-", "0", "1", "-", "1", "5", "T", "1", "0", ":", "0", "0", ":",
      "0", "0", ".", "0", "0", "0", "+", "0", "0", "0", "0">>
TimestampZ ==
    <<"2", "0", "2", "4", "-", "0", "1", "-", "1", "5", "T", "1", "0", ":", "0", "0", ":",
      "0", "0", "Z">>
TimestampOffset ==
    <<"2", "0", "2", "4", "-", "0", "1", "-", "1", "5", "T", "0", "0", ":", "3", "0", ":",
      "0", "0", "+", "0", "1", ":", "0", "0">>
DateOnly == <<"2", "0", "2", "4", "-", "0", "1", "-", "1", "5">>
NoSuchDay == <<"2", "0", "2", "3", "-", "0", "2", "-", "2", "9">>
Foo == <<"f", "o", "o">>

SampleLeaf(ty) ==
    CASE ty = "String" -> JStr(<<"a">>)
      [] ty = "bool" -> JTrue
      [] ty = "i32" -> JInt(<<"7">>)
      [] ty = "DateTime" -> JStr(Timestamp)
      [] ty = "NaiveDate" -> JStr(DateOnly)

RECURSIVE Sample(_, _, _)
SampleField(f, d, n) ==
    IF f.vec THEN JArr([i \in 1..(IF d > 0 THEN n ELSE 0) |-> Sample(f.ty, d - 1, n)])
    ELSE IF f.opt THEN Sample(f.ty, d - 1, n)
    ELSE Sample(f.ty, d, n)
Sample(ty, d, n) ==
    IF ~IsStruct(ty) THEN SampleLeaf(ty)
    ELSE LET fs == Schema(ty)
             Present(f) == ~f.opt \/ d > 0
             kept == SelectSeq(fs, Present)
         IN  JObj([i \in 1..Len(kept) |-> E(kept[i].wire, SampleField(kept[i], d, n))])

(***************************************************************************)
(* Paths.  A path is the sequence of entry positions from the root to a    *)
(* node; an edit rewrites the entries of the array or object it leads to.  *)
(***************************************************************************)
RECURSIVE Paths(_)
Paths(j) ==
    {<<>>} \cup UNION {{<<i>> \o p : p \in Paths(j.items[i].v)} : i \in 1..Len(j.items)}

RECURSIVE NodeAt(_, _)
NodeAt(j, p) == IF p = <<>> THEN j ELSE NodeAt(j.items[Head(p)].v, Tail(p))

RECURSIVE WithItems(_, _, _)
WithItems(j, p, es) ==
    IF p = <<>> THEN [j EXCEPT !.items = es]
    ELSE [j EXCEPT !.items[Head(p)].v = WithItems(j.items[Head(p)].v, Tail(p), es)]

RemoveEntry(es, i) == SubSeq(es, 1, i - 1) \o SubSeq(es, i + 1, Len(es))

(* The declared type of the node at path p of a document of type ty:      *)
(* a struct or leaf name, "Vec" for a declared collection's array, and    *)
(* "Value" for anything under a key no struct declares.                    *)
RECURSIVE TypeAt(_, _, _, _)
TypeAt(ty, vec, j, p) ==
    IF p = <<>> THEN (IF vec THEN "Vec" ELSE ty)
    ELSE LET e == j.items[Head(p)]
             n == IF IsStruct(ty) /\ ~vec /\ j.t = "obj" THEN FieldIndex(ty, e.k) ELSE 0
         IN  IF vec /\ j.t = "arr" THEN TypeAt(ty, FALSE, e.v, Tail(p))
             ELSE IF n = 0 THEN "Value"
             ELSE TypeAt(Schema(ty)[n].ty, Schema(ty)[n].vec, e.v, Tail(p))

(***************************************************************************)
(* The state: a caller decodes a document as type root, then changes one   *)
(* entry of it and decodes it again.  prev keeps the first outcome, edit   *)
(* what was changed, and where.                                            *)
(***************************************************************************)
VARIABLES root, doc, res, prev, edit, pc
vars == <<root, doc, res, prev, edit, pc>>

NoRes == Err("", "")
NoEdit == [op |-> "none", path |-> <<>>, key |-> "", site |-> "", val |-> JNull]

(* What was changed: the entry `key` of the node at `path`, a node of     *)
(* declared type `site`, removed, set to val, or added with val.           *)
Edit(op, p, k, v) ==
    [op |-> op, path |-> p, key |-> k, site |-> TypeAt(root, FALSE, doc, p), val |-> v]

Init ==
    /\ root \in EntityTypes
    /\ \E d \in 0..MaxDepth : \E n \in 1..MaxItems : doc = Sample(root, d, n)
    /\ res = NoRes
    /\ prev = NoRes
    /\ edit = NoEdit
    /\ pc = "ready"

(* serde_json's entry point with T = root: the whole document is decoded  *)
(* into one Result.                                                        *)
FromDocument ==
    /\ pc = "ready"
    /\ res' = Deserialize(root, doc)
    /\ pc' = "decoded"
    /\ UNCHANGED <<root, doc, prev, edit>>

Containers == {p \in Paths(doc) : NodeAt(doc, p).t \in {"arr", "obj"}}
Objects == {p \in Paths(doc) : NodeAt(doc, p).t = "obj"}

(* One change is made, to a document that has been decoded. *)
CanChange == pc = "decoded" /\ edit = NoEdit

Changed(p, es, e) ==
    /\ prev' = res
    /\ doc' = WithItems(doc, p, es)
    /\ edit' = e
    /\ res' = NoRes
    /\ pc' = "ready"
    /\ UNCHANGED root

(* The values an entry is set to: one of each JSON kind, and for a        *)
(* temporal or numeric field the strings and numbers near its format.      *)
Replacements(ty) ==
    {JNull, JStr(Foo), JObj(<<>>)}
    \cup (IF ty \in {"DateTime", "NaiveDate"}
          THEN {JStr(DateOnly), JStr(Timestamp), JStr(TimestampZ), JStr(TimestampOffset),
                JStr(NoSuchDay)}
          ELSE {})
    \cup (IF ty = "i32"
          THEN {JInt(I32MaxDigits), JInt(I32MinDigits), JInt(<<"-">> \o I32MinDigits),
                JFloat(<<"1", ".", "5">>)}
          ELSE {})
    \cup (IF ty = "bool" THEN {JFalse} ELSE {})

(* The keys added: a custom field, keys of a full issue, and the keys the  *)
(* node's type declares as Option.                                         *)
ExtraKeys == {"customfield_10010", "parent", "subtasks"}
OptionalKeys(ty) ==
    IF IsStruct(ty)
    THEN {Schema(ty)[n].wire : n \in {x \in 1..Len(Schema(ty)) : Schema(ty)[x].opt}}
    ELSE {}
ExtraValues ==
    {JNull, JStr(Foo), JObj(<<E("subtasks", JArr(<<JNull>>)), E("parent", JStr(Foo))>>)}

(* The caller's changes to the document. *)
RemoveKey ==
    /\ CanChange
    /\ \E p \in Containers : \E i \in 1..Len(NodeAt(doc, p).items) :
        LET es == NodeAt(doc, p).items
        IN  Changed(p, RemoveEntry(es, i), Edit("remove", p, es[i].k, es[i].v))

SetValue ==
    /\ CanChange
    /\ \E p \in Containers : \E i \in 1..Len(NodeAt(doc, p).items) :
        LET es == NodeAt(doc, p).items
        IN  \E v \in Replacements(TypeAt(root, FALSE, doc, Append(p, i))) :
                Changed(p, [es EXCEPT ![i].v = v], Edit("set", p, es[i].k, v))

AddKey ==
    /\ CanChange
    /\ \E p \in Objects : \E k \in ExtraKeys \cup OptionalKeys(TypeAt(root, FALSE, doc, p)) :
       \E v \in ExtraValues :
        Changed(p, Append(NodeAt(doc, p).items, E(k, v)), Edit("add", p, k, v))

RepeatKey ==
    /\ CanChange
    /\ \E p \in Objects : \E i \in 1..Len(NodeAt(doc, p).items) :
        LET es == NodeAt(doc, p).items
        IN  Changed(p, Append(es, es[i]), Edit("repeat", p, es[i].k, es[i].v))

Next ==
    \/ FromDocument
    \/ RemoveKey
    \/ SetValue
    \/ AddKey
    \/ RepeatKey

Spec == Init /\ [][Next]_vars

(***************************************************************************)
(* What the properties speak of.                                           *)
(***************************************************************************)
(* The second decode is done. *)
Redone == pc = "decoded" /\ edit # NoEdit

(* The spec's error kinds, by the serde::de::Error constructor. *)
MissingRequiredField(r) == ~r.ok /\ r.err = "missing_field"
ShapeMismatch(r) == ~r.ok /\ r.err \in {"invalid_type", "invalid_value", "custom"}

(* The declared field the edit touched (edit.site a struct), or none. *)
EditField ==
    IF IsStruct(edit.site) /\ FieldIndex(edit.site, edit.key) > 0
    THEN Schema(edit.site)[FieldIndex(edit.site, edit.key)]
    ELSE [rust |-> "", wire |-> "", ty |-> "", opt |-> FALSE, vec |-> FALSE]
OnDeclared == EditField.wire # ""
OnRequired == OnDeclared /\ ~EditField.opt
OnOptional == OnDeclared /\ EditField.opt

(* The record decoded from the node at path p: d is the record decoded    *)
(* from j as type ty (as Vec<ty> when vec).                                *)
RECURSIVE DecodedAt(_, _, _, _, _)
DecodedAt(d, ty, vec, j, p) ==
    IF p = <<>> THEN d
    ELSE IF vec THEN DecodedAt(d.items[Head(p)], ty, FALSE, j.items[Head(p)].v, Tail(p))
    ELSE LET n == FieldIndex(ty, j.items[Head(p)].k)
         IN  DecodedAt(d.items[n], Schema(ty)[n].ty, Schema(ty)[n].vec,
                       j.items[Head(p)].v, Tail(p))

(* The record decoded from the node the edit changed. *)
EditedRecord == DecodedAt(res.val, root, FALSE, doc, edit.path)

Keys(es) == {es[i].k : i \in 1..Len(es)}
WireNames(T) == {Schema(T)[n].wire : n \in 1..Len(Schema(T))}
LastValue(es, k) == es[Max({i \in 1..Len(es) : es[i].k = k})].v
FirstValue(es, k) == es[Min({i \in 1..Len(es) : es[i].k = k})].v

(* The entries of the node the edit changed, and how often its key occurs. *)
EditedEntries == NodeAt(doc, edit.path).items
Occurrences == Cardinality({i \in 1..Len(EditedEntries) : EditedEntries[i].k = edit.key})

(* The edit was made to a document that decoded. *)
FromValid == Redone /\ prev.ok

(* The document without the entries of the edited key. *)
WithoutKey ==
    WithItems(doc, edit.path, SelectSeq(EditedEntries, LAMBDA e : e.k # edit.key))

(* At every struct level of the record d decoded from j, `extra` holds    *)
(* the undeclared keys of that level's object and nothing else, each with  *)
(* the value the document gives it.                                        *)
RECURSIVE BagsExact(_, _, _, _)
BagsExact(d, ty, vec, j) ==
    IF d.k = "None" THEN TRUE
    ELSE IF vec
    THEN \A i \in 1..Len(j.items) : BagsExact(d.items[i], ty, FALSE, j.items[i].v)
    ELSE IF IsStruct(ty)
    THEN /\ DOMAIN d.bag = Keys(j.items) \ WireNames(ty)
         /\ \A k \in DOMAIN d.bag : d.bag[k] = ToValue(LastValue(j.items, k))
         /\ \A n \in 1..Len(Schema(ty)) :
                Schema(ty)[n].wire \in Keys(j.items) =>
                    BagsExact(d.items[n], Schema(ty)[n].ty, Schema(ty)[n].vec,
                              FirstValue(j.items, Schema(ty)[n].wire))
    ELSE TRUE

(***************************************************************************)
(* C1: whenever a document decodes, every entity in the result, at every  *)
(* nesting level, has in its overflow bag exactly the keys of its own     *)
(* JSON object that it does not declare, each with the document's value:  *)
(* no declared wire name is in a bag, and no undeclared key is dropped or  *)
(* moved to another level.                                                 *)
(***************************************************************************)
C1_OverflowExact ==
    (pc = "decoded" /\ res.ok) => BagsExact(res.val, root, FALSE, doc)

C1_Witness ==
    /\ Redone /\ res.ok
    /\ edit.op = "add" /\ edit.key = "customfield_10010"
    /\ Len(edit.path) >= 2 /\ IsStruct(edit.site)
    /\ edit.val.t = "obj"
    /\ DOMAIN EditedRecord.bag = {"customfield_10010"}
    /\ res.val.bag = EmptyMap

(***************************************************************************)
(* C2: removing any one required key (a scalar, a sub-entity, a           *)
(* collection, or the top-level `issues`) from a document that decodes    *)
(* makes the decode fail with MissingRequiredField naming that key.        *)
(***************************************************************************)
C2_RemovedRequiredIsMissing ==
    (FromValid /\ edit.op = "remove" /\ OnRequired)
        => (MissingRequiredField(res) /\ res.at = edit.key)

C2_Witness ==
    /\ FromValid /\ edit.op = "remove" /\ OnRequired
    /\ EditField.vec /\ edit.key = "labels" /\ Len(edit.path) >= 1
    /\ MissingRequiredField(res)

C4_AbsentEqualsNull ==
    (Redone /\ edit.op \in {"add", "set"} /\ edit.val = JNull /\ OnOptional
            /\ Occurrences = 1 /\ Deserialize(root, WithoutKey).ok)
        => /\ res = Deserialize(root, WithoutKey)
           /\ EditedRecord.items[FieldIndex(edit.site, edit.key)] = None
           /\ edit.key \notin DOMAIN EditedRecord.bag

C4_Witness ==
    /\ Redone /\ edit.op = "set" /\ edit.val = JNull /\ OnOptional
    /\ edit.key = "releaseDate" /\ Occurrences = 1
    /\ res.ok /\ prev.ok /\ res # prev

(* The nodes on the way from the root to the node the edit changed. *)
Prefixes(p) == {SubSeq(p, 1, n) : n \in 0..Len(p)}
SiteAt(q) == TypeAt(root, FALSE, doc, q)

FullTimestamps == {JStr(Timestamp), JStr(TimestampZ), JStr(TimestampOffset)}
(* The fields declared with leaf type ty, as <<struct, wire name>>. *)
DeclaredAs(ty) ==
    UNION {{<<T, Schema(T)[n].wire>> :
                n \in {x \in 1..Len(Schema(T)) : Schema(T)[x].ty = ty}} : T \in EntityTypes}

(***************************************************************************)
(* C5: `releaseDate` of Version, the only date-only field, accepts a      *)
(* year-month-day string and rejects every full timestamp string with     *)
(* ShapeMismatch; every other temporal field accepts the full timestamp    *)
(* strings and rejects the date-only string with ShapeMismatch.            *)
(***************************************************************************)
C5_TemporalContractsDisjoint ==
    (FromValid /\ edit.op = "set" /\ OnDeclared /\ Occurrences = 1) =>
        /\ DeclaredAs("NaiveDate") = {<<"Version", "releaseDate">>}
        /\ EditField.ty = "NaiveDate" =>
            /\ edit.val = JStr(DateOnly) => res.ok
            /\ edit.val \in FullTimestamps => ShapeMismatch(res)
        /\ EditField.ty = "DateTime" =>
            /\ edit.val \in FullTimestamps => res.ok
            /\ edit.val = JStr(DateOnly) => ShapeMismatch(res)

C5_Witness ==
    /\ FromValid /\ edit.op = "set" /\ edit.key = "releaseDate"
    /\ edit.val = JStr(TimestampZ)
    /\ ShapeMismatch(res) /\ res.err = "custom"

(* The two reduced field sets decode the object j alike. *)
SameOutcome(j) ==
    LET a == Deserialize("LinkedIssueFields", j)
        b == Deserialize("CondensedFields", j)
    IN  /\ a.ok = b.ok /\ a.err = b.err /\ a.at = b.at
        /\ a.ok => (a.val.items = b.val.items /\ a.val.bag = b.val.bag)

PriorityGiven(j) ==
    /\ j.t = "obj"
    /\ \E i \in 1..Len(j.items) : j.items[i].k = "priority"
    /\ \A i \in 1..Len(j.items) : j.items[i].k = "priority" => j.items[i].v.t # "null"

(***************************************************************************)
(* C6: with `priority` removed, a LinkedIssueFields object decodes with   *)
(* priority None and a CondensedFields object fails with                   *)
(* MissingRequiredField naming priority; an object that gives `priority`   *)
(* a value is accepted or rejected alike by the two, whatever was done to  *)
(* its other fields.                                                       *)
(***************************************************************************)
C6_PriorityContracts ==
    /\ (FromValid /\ edit.op = "remove" /\ edit.key = "priority" /\ edit.site = "LinkedIssueFields")
        => (res.ok /\ EditedRecord.items[FieldIndex(edit.site, "priority")] = None)
    /\ (FromValid /\ edit.op = "remove" /\ edit.key = "priority" /\ edit.site = "CondensedFields")
        => (MissingRequiredField(res) /\ res.at = "priority")
    /\ pc = "decoded" =>
        \A q \in Prefixes(edit.path) :
            (SiteAt(q) \in {"LinkedIssueFields", "CondensedFields"} /\ PriorityGiven(NodeAt(doc, q)))
                => SameOutcome(NodeAt(doc, q))

C6_Witness ==
    /\ FromValid /\ edit.op = "remove" /\ edit.key = "priority"
    /\ edit.site = "CondensedFields" /\ Len(edit.path) >= 1
    /\ MissingRequiredField(res)

C6_WitnessOptional ==
    /\ FromValid /\ edit.op = "remove" /\ edit.key = "priority"
    /\ edit.site = "LinkedIssueFields" /\ res.ok

(* A query result with one issue: every required field, no optional one,  *)
(* every collection empty, and one custom key in the issue's field set.    *)
EndToEndFields == <<1, 1, 4>>
EndToEndDoc ==
    LET issue == Sample("Issue", 0, 1)
        fields == NodeAt(issue, <<4>>).items
    IN  JObj(<<E("issues", JArr(<<WithItems(issue, <<4>>,
                    Append(fields, E("customfield_10010", JStr(Foo))))>>))>>)

(***************************************************************************)
(* C7: the end-to-end document decodes; the overflow bag of the issue's   *)
(* Fields is exactly {customfield_10010: "foo"}, every collection field   *)
(* of it is an empty sequence and every optional field of it is None.      *)
(***************************************************************************)
C7_EndToEnd ==
    (pc = "decoded" /\ root = "JqlResults" /\ doc = EndToEndDoc) =>
        /\ res.ok
        /\ LET f == DecodedAt(res.val, root, FALSE, doc, EndToEndFields)
           IN  /\ f.k = "Fields"
               /\ DOMAIN f.bag = {"customfield_10010"}
               /\ f.bag["customfield_10010"] = ToValue(JStr(Foo))
               /\ \A n \in 1..Len(Fields) :
                    /\ Fields[n].vec => (f.items[n].k = "Vec" /\ f.items[n].items = <<>>)
                    /\ Fields[n].opt => f.items[n] = None

C7_Witness ==
    /\ pc = "decoded" /\ root = "JqlResults" /\ doc = EndToEndDoc
    /\ edit.op = "add" /\ edit.path = EndToEndFields
    /\ res.ok /\ Len(res.val.items[1].items) = 1

(***************************************************************************)
(* C8: a decode yields a whole record of the root type or an error with   *)
(* no record.  If the entity at any node on the way to the edited entry   *)
(* fails to decode on its own, or the edited entry gives a declared        *)
(* sub-entity (an optional one included) a non-null value that fails to    *)
(* decode, the decode of the whole document fails.                         *)
(***************************************************************************)
C8_AllOrNothing ==
    pc = "decoded" =>
        /\ IF res.ok THEN res.val.k = root ELSE res.val = None
        /\ \A q \in Prefixes(edit.path) :
            (IsStruct(SiteAt(q)) /\ NodeAt(doc, q).t # "null"
                    /\ ~Deserialize(SiteAt(q), NodeAt(doc, q)).ok)
                => ~res.ok
        /\ (edit.op \in {"set", "add"} /\ OnDeclared /\ IsStruct(EditField.ty)
                    /\ ~EditField.vec /\ edit.val.t # "null"
                    /\ ~Deserialize(EditField.ty, edit.val).ok)
                => ~res.ok

C8_Witness ==
    /\ FromValid /\ root = "JqlResults"
    /\ edit.op = "add" /\ OnOptional /\ IsStruct(EditField.ty)
    /\ edit.val.t = "obj" /\ Occurrences = 1
    /\ ~res.ok /\ res.val = None

(* The keys of a full issue's field set that a condensed one lacks. *)
FullIssueKeys == {"parent", "subtasks", "customfield_10010"}

(***************************************************************************)
(* C9: CondensedIssue declares `fields`, `id`, `key`, `self` and nothing  *)
(* else, its `fields` a CondensedFields declaring `issuetype`, `priority`, *)
(* `status`, `summary`.  A `parent`, `subtasks` or custom key added to a   *)
(* CondensedIssue or CondensedFields of a document that decodes leaves the *)
(* decode successful, whatever the key's value: the value is in that       *)
(* level's overflow bag as it stands and the declared fields decode as     *)
(* before.                                                                 *)
(***************************************************************************)
C9_TwoTierDepth ==
    /\ WireNames("CondensedIssue") = {"fields", "id", "key", "self"}
    /\ WireNames("CondensedFields") = {"issuetype", "priority", "status", "summary"}
    /\ Schema("CondensedIssue")[FieldIndex("CondensedIssue", "fields")].ty = "CondensedFields"
    /\ (FromValid /\ edit.op = "add" /\ edit.key \in FullIssueKeys
            /\ edit.site \in {"CondensedIssue", "CondensedFields"})
        => /\ res.ok
           /\ edit.key \in DOMAIN EditedRecord.bag
           /\ EditedRecord.bag[edit.key] = ToValue(edit.val)
           /\ EditedRecord.items = DecodedAt(prev.val, root, FALSE, doc, edit.path).items

C9_Witness ==
    /\ FromValid /\ root = "Fields"
    /\ edit.op = "add" /\ edit.key = "subtasks" /\ edit.site = "CondensedIssue"
    /\ edit.val.t = "obj"
    /\ res.ok /\ EditedRecord.bag["subtasks"].t = "obj"

Counters == {"workratio", "watches", "votes"}

(***************************************************************************)
(* C10: `workratio`, `watches` and `votes` are required fields of Fields: *)
(* a field set that decodes stops decoding, with MissingRequiredField      *)
(* naming the key, once any one of them is removed; and in every decoded   *)
(* Fields the three are bound to their declared fields and absent from     *)
(* the overflow bag.                                                       *)
(***************************************************************************)
C10_CountersRequired ==
    /\ (FromValid /\ edit.op = "remove" /\ edit.site = "Fields" /\ edit.key \in Counters)
        => (MissingRequiredField(res) /\ res.at = edit.key)
    /\ (pc = "decoded" /\ res.ok) =>
        \A q \in Prefixes(edit.path) :
            SiteAt(q) = "Fields" =>
                LET f == DecodedAt(res.val, root, FALSE, doc, q)
                IN  /\ DOMAIN f.bag \cap Counters = {}
                    /\ \A k \in Counters : f.items[FieldIndex("Fields", k)] # None

C10_Witness ==
    /\ FromValid /\ edit.op = "remove" /\ edit.site = "Fields" /\ edit.key = "votes"
    /\ Len(edit.path) >= 1
    /\ MissingRequiredField(res) /\ res.at = "votes"

====
